---- MODULE Spec2Model ----
(***************************************************************************)
(* The OpenVpn session class (class OpenVpn of the library): one session   *)
(* object, the child processes it spawns, the operating system's table of  *)
(* OpenVPN processes, and the asynchronous calls connect(), disconnect(),  *)
(* killProcesses() and cleanup().                                          *)
(*                                                                         *)
(* JavaScript runs each callback to completion: an action of this module   *)
(* is one synchronous segment of a call, from one await (or event) to the  *)
(* next.  The continuation of `await this.killProcesses(...)` is a         *)
(* microtask, so it runs before any other event: see Quiet.                *)
(* Time advances only in sleep(): the polling loop's clock is the sum of   *)
(* its sleeps.                                                             *)
(***************************************************************************)
EXTENDS Integers, Sequences, FiniteSets, TLC

\* Bounds of the model.
MaxConnects == 2
MaxDisconnects == 1
MaxLines == 1
MaxSoloLines == 2
MaxPatterns == 2
MaxChunks == 2

\* Program constants.
PollIntervalMs == 500
BootstrapTimeoutMs == 1000
DefaultTimeoutMs == 1000

Statuses ==
    {"connecting", "connected", "disconnecting", "disconnected",
     "reconnecting", "stopped", "error", "auth", "auth_username",
     "auth_password", "auth_success", "auth_failed"}

\* The substrings handleLog looks for.
Patterns ==
    {"PUSH", "INIT", "EXITING", "USER", "PASS", "VERIFY", "AUTH_FAILED",
     "PEER", "SIGUSR1", "ARP"}

\* A line of output is modelled by the set of patterns it contains.
Lines == {{}} \cup {{p} : p \in Patterns}

\* The lines the children of the session model print: one line for each status
\* a line can cause, and a line that matches nothing.
SessionLines == {{"INIT"}, {"EXITING"}, {"USER"}, {"AUTH_FAILED"}, {"SIGUSR1"}}

\* Lines that contain up to MaxPatterns of the patterns.
PatternLines == {S \in SUBSET Patterns : Cardinality(S) <= MaxPatterns}

\* What handleChunk gets between two line terminators of a chunk: a whole line,
\* the head or the tail of a line that the pipe delivered in two chunks, or
\* nothing but white space.  pats are the patterns the piece contains.
\* line is the line the piece is (part of), rest what a head leaves to its tail.
Whole(line) == [pats |-> line, part |-> "whole", line |-> line, rest |-> {}]
HeadPiece(x) == [pats |-> x.head, part |-> "head", line |-> x.line, rest |-> x.tail]
TailPiece(h) == [pats |-> h.rest, part |-> "tail", line |-> h.line, rest |-> {}]
Blank == [pats |-> {}, part |-> "blank", line |-> {}, rest |-> {}]

\* The ways a line is cut in two: a pattern is in the head, in the tail, or
\* astride the cut and in neither.
Splits ==
    {x \in [line : {{}, {"INIT"}}, head : SUBSET {"INIT"}, tail : SUBSET {"INIT"}] :
        /\ x.head \subseteq x.line
        /\ x.tail \subseteq x.line
        /\ x.head \cap x.tail = {}}

\* Arguments a caller passes to disconnect() and killProcesses().
TimeoutChoices == {PollIntervalMs, DefaultTimeoutMs}

\* Pids: the k-th child the session spawns has pid k; ForeignPids are OpenVPN
\* processes of the machine that the session did not spawn.
Children == 1 .. MaxConnects
ForeignPids == {100, 101}
Pids == Children \cup ForeignPids
NoProcess == 0

Conns == 1 .. MaxConnects
Discs == 1 .. MaxDisconnects

\* Who runs a killProcesses(): a connect() (its bootstrap), a disconnect(),
\* or a caller of the public method.
ConnOwner(c) == <<"connect", c>>
DiscOwner(d) == <<"disconnect", d>>
UserOwner == <<"user", 1>>
SessionOwners == {ConnOwner(c) : c \in Conns} \cup {DiscOwner(d) : d \in Discs}
Owners == SessionOwners \cup {UserOwner}

\* The sessions the model constructs: new OpenVpn({...}) on a caller's file
\* (isTempConfig FALSE) and OpenVpn.createFromConfig({...}) (TRUE).
Configs ==
    {[username |-> TRUE, password |-> TRUE, useAuthFile |-> TRUE, isTempConfig |-> FALSE],
     [username |-> FALSE, password |-> FALSE, useAuthFile |-> FALSE, isTempConfig |-> TRUE]}

VARIABLES
    status,     \* this.status
    process,    \* this.process: NoProcess or the pid of the held child
    proc,       \* pid -> "none" | "running" | "spawnerr" | "exited" | "closed"
    conn,       \* connect() calls
    disc,       \* disconnect() calls
    kp,         \* killProcesses() runs, by owner
    cfg,        \* constructor options
    files,      \* the session's paths and the files behind them
    nLines,     \* lines of output delivered so far
    obs         \* what was observed of the run (for the properties)

vars == <<status, process, proc, conn, disc, kp, cfg, files, nLines, obs>>

Min(S) == CHOOSE x \in S : \A y \in S : x <= y
Cap2(n) == IF n >= 2 THEN 2 ELSE n + 1

\* getProcesses(): the running processes whose name is an OpenVPN executable.
getProcesses == {p \in Pids : proc[p] = "running"}

----------------------------------------------------------------------------
\* Records.

IdleConn ==
    [pc |-> "idle", lis |-> FALSE, timer |-> "unset", timerDisc |-> FALSE,
     nConnecting |-> 0, nConnected |-> 0, sawFail |-> FALSE, clean |-> FALSE,
     first |-> "none"]

IdleDisc ==
    [pc |-> "idle", graceful |-> TRUE, timeoutMs |-> 0, fromStopped |-> FALSE,
     released |-> FALSE, cleaned |-> FALSE, laterConnect |-> FALSE]

IdleKp ==
    [pc |-> "idle", todo |-> {}, elapsed |-> 0, graceful |-> FALSE,
     timeoutMs |-> 0, forced |-> {}, matched |-> {}, caught |-> FALSE]

StartKp(graceful, timeoutMs) ==
    [IdleKp EXCEPT !.pc = "query", !.graceful = graceful, !.timeoutMs = timeoutMs]

InProgress(r) == r.pc \in {"bootSleep", "bootKill", "pending"}

----------------------------------------------------------------------------
\* The 'status' event: eventEmitter.emit('status', s) calls the listeners
\* synchronously.  statusListener is the listener a connect() call attaches.

SettleEvents == {"connected", "error", "auth_failed"}

\* A listener that lets 'auth_failed' pass: C3_FirstSettlingEvent fails with it.
statusListenerMutant(r, s) ==
    IF ~r.lis THEN r
    ELSE IF s = "connected"
         THEN [r EXCEPT !.lis = FALSE,
                        !.pc = IF r.pc = "pending" THEN "resolved" ELSE r.pc]
    ELSE IF s = "error"
         THEN [r EXCEPT !.lis = FALSE,
                        !.pc = IF r.pc = "pending" THEN "failed" ELSE r.pc]
    ELSE r

\* The listener of lines 360-368.
statusListener(r, s) ==
    IF ~r.lis THEN r
    ELSE IF s = "connected"
         THEN [r EXCEPT !.lis = FALSE,
                        !.pc = IF r.pc = "pending" THEN "resolved" ELSE r.pc]
    ELSE IF s \in {"error", "auth_failed"}
         THEN [r EXCEPT !.lis = FALSE,
                        !.pc = IF r.pc = "pending" THEN "failed" ELSE r.pc]
    ELSE r

\* What a subscriber attached before the call sees of one call (kept with the
\* call's record): the events between the call and its settling, and the first
\* settling event between the spawn and the deadline.
Observe(r, s) ==
    [r EXCEPT
       !.nConnecting = IF InProgress(r) /\ s = "connecting"
                       THEN Cap2(r.nConnecting) ELSE r.nConnecting,
       !.nConnected = IF InProgress(r) /\ s = "connected"
                      THEN Cap2(r.nConnected) ELSE r.nConnected,
       !.sawFail = r.sawFail \/ (InProgress(r) /\ s \in {"error", "auth_failed"}),
       !.first = IF r.timer = "armed" /\ r.first = "none" /\ s \in SettleEvents
                 THEN s ELSE r.first]

\* When a call settles, what its subscriber saw is summed up in `clean`: exactly
\* one 'connecting', exactly one 'connected', no 'error' or 'auth_failed'.
Summed(old, new) ==
    IF InProgress(old) /\ ~InProgress(new)
    THEN [new EXCEPT !.clean = new.nConnecting = 1 /\ new.nConnected = 1 /\ ~new.sawFail,
                     !.nConnecting = 0, !.nConnected = 0, !.sawFail = FALSE]
    ELSE new

Emit1(cn, s) ==
    [c \in Conns |-> Summed(cn[c], statusListener(Observe(cn[c], s), s))]

RECURSIVE Emit(_, _)
Emit(cn, evs) ==
    IF evs = <<>> THEN cn ELSE Emit(Emit1(cn, Head(evs)), Tail(evs))

----------------------------------------------------------------------------
\* handleAuth(type): answer a prompt, or fail when no credential is configured.
\* Returns the status, the events emitted and the writes to the child's stdin.
\* A write is this.process?.stdin?.write(`${credential}\n`): it goes to the
\* child the session holds, and nowhere when it holds none.
handleAuth(type, st) ==
    IF (type = "username" /\ cfg.username) \/ (type = "password" /\ cfg.password)
    THEN [status |-> st, evs |-> <<>>,
          writes |-> IF process # NoProcess
                     THEN <<[to |-> process, text |-> <<type, "\n">>]>> ELSE <<>>]
    ELSE [status |-> "auth_failed", evs |-> <<"auth_failed">>, writes |-> <<>>]

\* An emitted event, in the order of emission.
LogEvent(line) == [ev |-> "log", val |-> line]
StatusEvent(s) == [ev |-> "status", val |-> s]

RECURSIVE StatusEvents(_)
StatusEvents(evs) ==
    IF evs = <<>> THEN <<>> ELSE <<StatusEvent(Head(evs))>> \o StatusEvents(Tail(evs))

\* handleLog(line): the line is emitted as a 'log' event, then the checks run
\* one after the other, each on the status the previous one left.  Returns the
\* status, the status events (evs), the writes, and all events in order (emits).
\* A check that is taken whether or not its pattern is in the line:
\* C17_NoPatternNoEffect fails with it.
LogStepMutant(acc, hit, to) ==
    [acc EXCEPT !.status = to, !.evs = Append(acc.evs, to),
                !.emits = Append(acc.emits, StatusEvent(to))]

LogStep(acc, hit, to) ==
    IF hit THEN [acc EXCEPT !.status = to, !.evs = Append(acc.evs, to),
                            !.emits = Append(acc.emits, StatusEvent(to))]
    ELSE acc

LogAuth(acc, hit, type, to) ==
    IF ~hit THEN acc
    ELSE LET a == handleAuth(type, to)
         IN [status |-> a.status,
             evs |-> Append(acc.evs, to) \o a.evs,
             writes |-> acc.writes \o a.writes,
             emits |-> Append(acc.emits, StatusEvent(to)) \o StatusEvents(a.evs)]

\* A handleLog whose last check does not look at the status:
\* C15_ArpOnlyFromReconnecting fails with it.
handleLogMutant(line, st) ==
    LET has(p) == p \in line.pats
        s0 == [status |-> st, evs |-> <<>>, writes |-> <<>>,
               emits |-> <<LogEvent(line)>>]
        s1 == LogStep(s0, (has("PUSH") \/ has("INIT")) /\ s0.status # "connected",
                      "connected")
        s2 == LogStep(s1, has("EXITING"), "disconnected")
        s3 == LogAuth(s2, has("USER"), "username", "auth_username")
        s4 == LogAuth(s3, has("PASS"), "password", "auth_password")
        s5 == LogStep(s4, has("VERIFY") \/ has("AUTH_FAILED"), "auth_failed")
        s6 == LogStep(s5, has("PEER"), "auth_success")
        s7 == LogStep(s6, has("SIGUSR1"), "reconnecting")
        s8 == LogStep(s7, has("ARP"), "connected")
    IN s8

handleLog(line, st) ==
    LET has(p) == p \in line.pats
        s0 == [status |-> st, evs |-> <<>>, writes |-> <<>>,
               emits |-> <<LogEvent(line)>>]
        s1 == LogStep(s0, (has("PUSH") \/ has("INIT")) /\ s0.status # "connected",
                      "connected")
        s2 == LogStep(s1, has("EXITING"), "disconnected")
        s3 == LogAuth(s2, has("USER"), "username", "auth_username")
        s4 == LogAuth(s3, has("PASS"), "password", "auth_password")
        s5 == LogStep(s4, has("VERIFY") \/ has("AUTH_FAILED"), "auth_failed")
        s6 == LogStep(s5, has("PEER"), "auth_success")
        s7 == LogStep(s6, has("SIGUSR1"), "reconnecting")
        s8 == LogStep(s7, has("ARP") /\ s7.status = "reconnecting", "connected")
    IN s8

\* What is recorded of one handleLog call: the line, the status before and
\* after, the child the session held, and what the call emitted and wrote.
Handled(line, st, r) ==
    [line |-> line, before |-> st, held |-> process, after |-> r.status,
     evs |-> r.evs, writes |-> r.writes, emits |-> r.emits]

NotHandled ==
    [line |-> Blank, before |-> "stopped", held |-> NoProcess, after |-> "stopped",
     evs |-> <<>>, writes |-> <<>>, emits |-> <<>>]

\* handleChunk(chunk): handleLog for each piece between line terminators that
\* is not blank (line.trim()), in order; acc is the result so far.
RECURSIVE handleChunk(_, _)
handleChunk(chunk, acc) ==
    IF chunk = <<>> THEN acc
    ELSE IF Head(chunk).part = "blank" THEN handleChunk(Tail(chunk), acc)
    ELSE LET r == handleLog(Head(chunk), acc.status)
         IN handleChunk(Tail(chunk),
                        [status |-> r.status, evs |-> acc.evs \o r.evs,
                         writes |-> acc.writes \o r.writes,
                         emits |-> acc.emits \o r.emits,
                         last |-> Handled(Head(chunk), acc.status, r)])

----------------------------------------------------------------------------
\* on('status', ...) and on('log', ...): the subscribers attached before
\* connect() is called, and what they have received.
\*   sub   "none": no subscriber; "line": one that keeps the last handleLog
\*         call; "status": one that keeps every status event it received;
\*         "stream": one that keeps every event it received.
\*   calls a subscriber attached before the recording one calls disconnect()
\*         inside its callback, the first time it receives 'connected'.
\*   applied: the values assigned to this.status, in order; heard: the status
\*   events received; logs: the 'log' events received.
\*   out: the lines the children have written in full; cut: the head of the
\*   line whose tail the pipe has not delivered yet (Blank: none).
Observer(sub, calls) ==
    [killFailed |-> FALSE, sub |-> sub, calls |-> calls, last |-> NotHandled,
     applied |-> <<>>, heard |-> <<>>, logs |-> <<>>, out |-> <<>>, cut |-> Blank]

\* Status values were assigned and emitted one after the other.
Told(o, evs) ==
    IF o.sub \in {"stream", "status"}
    THEN [o EXCEPT !.applied = @ \o evs, !.heard = @ \o evs]
    ELSE o

\* 'log' events were emitted.
\* A 'log' event as a subscriber receives it: a piece of the child's output
\* (from handleLog), or a message of the session itself.
ChildLog(piece) == [src |-> "child", piece |-> piece, text |-> ""]
SessionLog(text) == [src |-> "session", piece |-> Blank, text |-> text]

Logged(o, logs) ==
    IF o.sub = "stream"
    THEN [o EXCEPT !.logs = @ \o [i \in 1 .. Len(logs) |-> SessionLog(logs[i])]]
    ELSE o

RECURSIVE LogsOf(_)
LogsOf(emits) ==
    IF emits = <<>> THEN <<>>
    ELSE (IF Head(emits).ev = "log" THEN <<ChildLog(Head(emits).val)>> ELSE <<>>)
         \o LogsOf(Tail(emits))

\* The lines that a chunk completes, and the cut it leaves.
RECURSIVE LinesOf(_)
LinesOf(chunk) ==
    IF chunk = <<>> THEN <<>>
    ELSE (IF Head(chunk).part \in {"whole", "tail"} THEN <<Head(chunk).line>> ELSE <<>>)
         \o LinesOf(Tail(chunk))

CutAfter(chunk) ==
    IF chunk[Len(chunk)].part = "head" THEN chunk[Len(chunk)] ELSE Blank

\* The chunks the pipe can deliver when `cut` is pending: the tail of a cut
\* line comes first, and only the last piece of a chunk can be a head.
WellCut(chunk, cut) ==
    /\ chunk # <<>>
    /\ \A i \in 1 .. Len(chunk) :
          /\ chunk[i].part = "tail" => i = 1 /\ cut.part = "head" /\ chunk[i] = TailPiece(cut)
          /\ chunk[i].part = "head" => i = Len(chunk)
    /\ cut.part = "head" => chunk[1].part = "tail"

\* What the subscribers keep of one 'data' event; r is handleChunk's result.
Recorded(o, chunk, r) ==
    LET o1 == [o EXCEPT !.cut = CutAfter(chunk),
                        !.last = IF o.sub \in {"none", "status"} THEN @ ELSE r.last]
    IN IF o.sub = "stream"
       THEN [o1 EXCEPT !.logs = @ \o LogsOf(r.emits), !.out = @ \o LinesOf(chunk)]
       ELSE o1

----------------------------------------------------------------------------
\* cleanupTempConfig(): unlink the config file and the auth file inside one
\* try, then remove the temp directory of a createFromConfig session.  failCfg,
\* failAuth and failRm are the outcomes of the three file system calls: an
\* exception, which is caught and logged.
\* A cleanup that unlinks one file per call: C20_CleanupIdempotent fails
\* with it.
cleanupTempConfigMutant(f, failCfg, failAuth, failRm) ==
    IF f.cfgFile /\ ~failCfg THEN [f EXCEPT !.cfgFile = FALSE]
    ELSE IF f.authPath /\ f.authFile /\ ~failAuth THEN [f EXCEPT !.authFile = FALSE]
    ELSE f

cleanupTempConfig(f, failCfg, failAuth, failRm) ==
    LET threw == f.cfgFile /\ failCfg
        f1 == IF f.cfgFile /\ ~failCfg THEN [f EXCEPT !.cfgFile = FALSE] ELSE f
        f2 == IF ~threw /\ f1.authPath /\ f1.authFile /\ ~failAuth
              THEN [f1 EXCEPT !.authFile = FALSE] ELSE f1
    IN IF f2.tempDir /\ cfg.isTempConfig /\ f2.dirExists /\ ~failRm
       THEN [f2 EXCEPT !.dirExists = FALSE, !.cfgFile = FALSE, !.authFile = FALSE]
       ELSE f2

\* The 'log' events of cleanupTempConfig(): one for each exception caught.
cleanupLogs(f, failCfg, failAuth, failRm) ==
    LET threw == f.cfgFile /\ failCfg
        f1 == IF f.cfgFile /\ ~failCfg THEN [f EXCEPT !.cfgFile = FALSE] ELSE f
        threw2 == ~threw /\ f1.authPath /\ f1.authFile /\ failAuth
    IN (IF threw \/ threw2 THEN <<"Error cleaning up temp files">> ELSE <<>>)
       \o (IF f1.tempDir /\ cfg.isTempConfig /\ f1.dirExists /\ failRm
           THEN <<"Error cleaning up temp directory">> ELSE <<>>)

----------------------------------------------------------------------------
InitSession(foreign, ob) ==
    /\ status = "stopped"
    /\ process = NoProcess
    /\ proc = [p \in Pids |-> IF p \in ForeignPids THEN foreign ELSE "none"]
    /\ conn = [c \in Conns |-> IdleConn]
    /\ disc = [d \in Discs |-> IdleDisc]
    /\ kp = [o \in Owners |-> IdleKp]
    /\ cfg \in Configs
    /\ files = [cfgFile |-> TRUE, authPath |-> FALSE, authFile |-> FALSE,
                tempDir |-> cfg.isTempConfig, dirExists |-> cfg.isTempConfig]
    /\ nLines = 0
    /\ obs = ob

InitWith(foreign) == InitSession(foreign, Observer("none", FALSE))

\* A new session on a machine that runs no other OpenVPN process.
Init == InitWith("closed")

\* A new session on a machine that runs other OpenVPN processes.
InitKill == InitWith("running")

\* A new session with a subscriber that keeps the last handleLog call.
InitLog == InitSession("closed", Observer("line", FALSE))

\* A new session with a subscriber that keeps the status events.
InitFrame == InitSession("closed", Observer("status", FALSE))

\* A new session with subscribers that keep every event, the first of which
\* may call disconnect() from its callback.
InitSubs == \E calls \in BOOLEAN : InitSession("closed", Observer("stream", calls))

\* A killProcesses() run of a connect() or disconnect() has ended and the
\* caller's continuation (a microtask) has not run yet: nothing else runs first.
Quiet == \A o \in SessionOwners : kp[o].pc \notin {"done", "raised"}

----------------------------------------------------------------------------
\* The children and the other OpenVPN processes of the machine.

\* The process ends (by a signal, or by itself); its 'close' event is pending.
ChildExit(p) ==
    /\ Quiet
    /\ proc[p] = "running"
    /\ proc' = [proc EXCEPT ![p] = IF p \in Children THEN "exited" ELSE "closed"]
    /\ UNCHANGED <<status, process, conn, disc, kp, cfg, files, nLines, obs>>

\* process.on('close'): connect(), lines 348-351.
ChildClose(p) ==
    /\ Quiet
    /\ p \in Children
    /\ proc[p] = "exited"
    /\ proc' = [proc EXCEPT ![p] = "closed"]
    /\ status' = "disconnected"
    /\ conn' = Emit(conn, <<"disconnected">>)
    /\ obs' = Told(obs, <<"disconnected">>)
    /\ UNCHANGED <<process, disc, kp, cfg, files, nLines>>

\* process.on('error'): connect(), lines 353-357.  The child never ran; its
\* 'close' event may or may not follow.
ChildError(p) ==
    /\ Quiet
    /\ p \in Children
    /\ proc[p] = "spawnerr"
    /\ \E next \in {"exited", "closed"} : proc' = [proc EXCEPT ![p] = next]
    /\ status' = "error"
    /\ conn' = Emit(conn, <<"error">>)
    /\ obs' = Logged(Told(obs, <<"error">>), <<"Error: message">>)
    /\ UNCHANGED <<process, disc, kp, cfg, files, nLines>>

\* The chunks for which the subscriber that calls disconnect() is modelled:
\* one piece with at most one pattern.
CallChunks ==
    {<<Whole(L)>> : L \in Lines} \cup {<<Blank>>}
    \cup {<<HeadPiece(x)>> : x \in Splits} \cup {<<TailPiece(HeadPiece(x))>> : x \in Splits}

\* stdout/stderr 'data' (lines 341-346): handleChunk(chunk).  Output written
\* before the process ended is still delivered before 'close'.  When the first
\* subscriber calls disconnect() on 'connected', the first segment of
\* disconnect() (lines 388-404, defaults graceful = true, timeoutMs = 1000)
\* runs inside the emit: its 'disconnecting' reaches every listener before the
\* 'connected' being emitted reaches the listeners attached after the caller.
ChildData(p, chunk, max) ==
    /\ Quiet
    /\ p \in Children
    /\ proc[p] \in {"running", "exited"}
    /\ nLines < max
    /\ WellCut(chunk, obs.cut)
    /\ obs.calls => chunk \in CallChunks
    /\ LET r == handleChunk(chunk, [status |-> status, evs |-> <<>>, writes |-> <<>>,
                                    emits |-> <<>>, last |-> obs.last])
           o == Recorded(obs, chunk, r)
           calling == obs.calls /\ r.evs = <<"connected">> /\ disc[1].pc = "idle"
           wait == process # NoProcess
       IN IF calling
          THEN /\ status' = "disconnecting"
               /\ conn' = Emit(conn, <<"disconnecting", "connected">>)
               /\ disc' = [disc EXCEPT ![1] =
                             [@ EXCEPT !.pc = IF wait THEN "sleep" ELSE "kill",
                                       !.graceful = TRUE, !.timeoutMs = DefaultTimeoutMs,
                                       !.fromStopped = FALSE]]
               /\ kp' = IF wait THEN kp
                        ELSE [kp EXCEPT ![DiscOwner(1)] = StartKp(TRUE, DefaultTimeoutMs)]
               /\ obs' = [o EXCEPT !.applied = @ \o <<"connected", "disconnecting">>,
                                   !.heard = @ \o <<"disconnecting", "connected">>]
          ELSE /\ status' = r.status
               /\ conn' = Emit(conn, r.evs)
               /\ obs' = Told(o, r.evs)
               /\ UNCHANGED <<disc, kp>>
    /\ nLines' = nLines + 1
    /\ UNCHANGED <<process, proc, cfg, files>>

\* A 'data' event with one complete line.
ChildLine(p, line, max) == ChildData(p, <<Whole(line)>>, max)

----------------------------------------------------------------------------
\* killProcesses(graceful, timeoutMs), lines 467-513, one action per await.

\* await getProcesses() (line 468) and the branch after it.
KpQuery(o) ==
    /\ Quiet
    /\ kp[o].pc = "query"
    /\ LET live == getProcesses
       IN kp' = [kp EXCEPT ![o] =
                   IF live = {} THEN [@ EXCEPT !.pc = "empty"]
                   ELSE IF @.graceful THEN [@ EXCEPT !.pc = "interrupt", !.todo = live]
                   ELSE [@ EXCEPT !.pc = "requery"]]
    /\ UNCHANGED <<status, process, proc, conn, disc, cfg, files, nLines, obs>>

\* A loop that is left at once, whatever the time elapsed:
\* C7_NoForceBeforePollingEndsOrCatch fails with it.
AfterPollMutant(k) == [k EXCEPT !.pc = "requery"]

\* Where the polling loop goes after its condition is evaluated (line 483).
AfterPoll(k) ==
    IF k.elapsed < k.timeoutMs THEN [k EXCEPT !.pc = "poll"]
    ELSE [k EXCEPT !.pc = "requery"]

\* await fkill(pid, {force: false}) (line 478): ok is the outcome for a running
\* process; fkill throws for a process that no longer exists.  A throw leaves
\* the try block (line 490).
KpInterrupt(o, ok) ==
    /\ Quiet
    /\ kp[o].pc = "interrupt"
    /\ LET p == Min(kp[o].todo)
           rest == kp[o].todo \ {p}
       IN kp' = [kp EXCEPT ![o] =
                   IF proc[p] # "running" \/ ~ok
                   THEN [@ EXCEPT !.pc = "requery", !.todo = {}, !.caught = TRUE]
                   ELSE IF rest # {} THEN [@ EXCEPT !.todo = rest]
                   ELSE AfterPoll([@ EXCEPT !.todo = {}])]
    /\ UNCHANGED <<status, process, proc, conn, disc, cfg, files, nLines, obs>>

\* await sleep(500); processes = await getProcesses() (lines 484-488).
KpPoll(o) ==
    /\ Quiet
    /\ kp[o].pc = "poll"
    /\ LET live == getProcesses
           k == [kp[o] EXCEPT !.elapsed = @ + PollIntervalMs]
       IN kp' = [kp EXCEPT ![o] =
                   IF live = {} THEN [k EXCEPT !.pc = "empty"] ELSE AfterPoll(k)]
    /\ UNCHANGED <<status, process, proc, conn, disc, cfg, files, nLines, obs>>

\* processes = await getProcesses() of the force phase (lines 497-498).
KpRequery(o) ==
    /\ Quiet
    /\ kp[o].pc = "requery"
    /\ LET live == getProcesses
       IN kp' = [kp EXCEPT ![o] =
                   IF live = {} THEN [@ EXCEPT !.pc = "empty"]
                   ELSE [@ EXCEPT !.pc = "force", !.todo = live, !.matched = live]]
    /\ UNCHANGED <<status, process, proc, conn, disc, cfg, files, nLines, obs>>

\* A forceful kill that succeeds ends the process at once.
Killed(pr, S) ==
    [p \in Pids |-> IF p \in S THEN (IF p \in Children THEN "exited" ELSE "closed")
                    ELSE pr[p]]

\* await fkill(pid, {force: true}) (line 500); a throw goes to the catch.
KpForce(o, ok) ==
    /\ Quiet
    /\ kp[o].pc = "force"
    /\ LET p == Min(kp[o].todo)
           rest == kp[o].todo \ {p}
           dead == proc[p] # "running"
       IN /\ kp' = [kp EXCEPT ![o] =
                      IF dead \/ ~ok
                      THEN [@ EXCEPT !.pc = "retry", !.todo = {}, !.forced = @ \cup {p}]
                      ELSE [@ EXCEPT !.pc = IF rest = {} THEN "done" ELSE "force",
                                     !.todo = rest, !.forced = @ \cup {p}]]
          /\ proc' = IF ~dead /\ ok THEN Killed(proc, {p}) ELSE proc
          /\ obs' = [obs EXCEPT !.killFailed = @ \/ (~dead /\ ~ok)]
    /\ UNCHANGED <<status, process, conn, disc, cfg, files, nLines>>

\* catch: await sleep(500); processes = await getProcesses() (lines 504-505).
KpRetry(o) ==
    /\ Quiet
    /\ kp[o].pc = "retry"
    /\ LET live == getProcesses
       IN kp' = [kp EXCEPT ![o] =
                   IF live = {} THEN [@ EXCEPT !.pc = "empty"]
                   ELSE [@ EXCEPT !.pc = "batch", !.todo = live]]
    /\ UNCHANGED <<status, process, proc, conn, disc, cfg, files, nLines, obs>>

\* await fkill([...pids], {force: true}) (lines 507-510), outside any try: the
\* processes in `dies` are killed, and fkill throws if any of the batch was not.
KpBatch(o, dies) ==
    /\ Quiet
    /\ kp[o].pc = "batch"
    /\ dies \subseteq (kp[o].todo \cap getProcesses)
    /\ kp' = [kp EXCEPT ![o] =
                [@ EXCEPT !.pc = IF dies = kp[o].todo THEN "done" ELSE "raised",
                          !.forced = @ \cup kp[o].todo, !.todo = {}]]
    /\ proc' = Killed(proc, dies)
    /\ obs' = [obs EXCEPT !.killFailed =
                 @ \/ (kp[o].todo \cap getProcesses) # dies]
    /\ UNCHANGED <<status, process, conn, disc, cfg, files, nLines>>

----------------------------------------------------------------------------
\* Calls are numbered in the order they are made.
NextConn(c) == conn[c].pc = "idle" /\ \A b \in Conns : b < c => conn[b].pc # "idle"
NextDisc(d) == disc[d].pc = "idle" /\ \A b \in Discs : b < d => disc[b].pc # "idle"

\* connect() -> bootstrap(), lines 303-312: up to the first await.
ConnectCall(c) ==
    /\ Quiet
    /\ NextConn(c)
    /\ status' = "connecting"
    /\ LET held == process # NoProcess
       IN /\ conn' = Emit([conn EXCEPT ![c].pc = IF held THEN "bootSleep" ELSE "bootKill"],
                          <<"connecting">>)
          /\ kp' = IF held THEN kp
                   ELSE [kp EXCEPT ![ConnOwner(c)] = StartKp(TRUE, BootstrapTimeoutMs)]
    /\ disc' = [d \in Discs |->
                  IF disc[d].pc # "idle" THEN [disc[d] EXCEPT !.laterConnect = TRUE]
                  ELSE disc[d]]
    /\ obs' = Told(obs, <<"connecting">>)
    /\ UNCHANGED <<process, proc, cfg, files, nLines>>

\* bootstrap(), lines 311-315: after sleep(500), killProcesses(true, 1000).
ConnectBootSleep(c) ==
    /\ Quiet
    /\ conn[c].pc = "bootSleep"
    /\ conn' = [conn EXCEPT ![c].pc = "bootKill"]
    /\ kp' = [kp EXCEPT ![ConnOwner(c)] = StartKp(TRUE, BootstrapTimeoutMs)]
    /\ UNCHANGED <<status, process, proc, disc, cfg, files, nLines, obs>>

\* createAuthFile(), lines 218-230.
createAuthFile(f) ==
    [f EXCEPT !.tempDir = TRUE, !.dirExists = IF f.tempDir THEN f.dirExists ELSE TRUE,
              !.authPath = TRUE, !.authFile = TRUE]

\* The rest of bootstrap() and connect(), lines 316-385, after killProcesses:
\* exec is what getExecPath() and spawn() meet: the binary is found, getExecPath
\* throws (win32, not installed), or spawn() fails with ENOENT ('error' event).
ConnectSpawn(c, exec) ==
    /\ conn[c].pc = "bootKill"
    /\ kp[ConnOwner(c)].pc \in {"done", "raised"}
    /\ kp' = [kp EXCEPT ![ConnOwner(c)] = IdleKp]
    /\ LET needAuth == cfg.useAuthFile /\ ~files.authPath
           writeFails == needAuth /\ files.tempDir /\ ~files.dirExists
       IN IF kp[ConnOwner(c)].pc = "raised"
          THEN /\ conn' = [conn EXCEPT ![c] = Summed(@, [@ EXCEPT !.pc = "threw"])]
               /\ UNCHANGED <<process, proc, files>>
          ELSE IF exec = "throws" \/ writeFails
          THEN /\ conn' = [conn EXCEPT ![c] = Summed(@, [@ EXCEPT !.pc = "threw"])]
               /\ process' = NoProcess
               /\ UNCHANGED <<proc, files>>
          ELSE /\ conn' = [conn EXCEPT ![c].pc = "pending", ![c].lis = TRUE,
                                       ![c].timer = "armed"]
               /\ process' = c
               /\ proc' = [proc EXCEPT ![c] = IF exec = "found" THEN "running"
                                              ELSE "spawnerr"]
               /\ files' = IF needAuth THEN createAuthFile(files) ELSE files
    /\ UNCHANGED <<status, disc, cfg, nLines, obs>>

\* A disconnect() that emits `disconnecting` whatever the status:
\* C28_DisconnectingOnce fails with it.
DisconnectBeginMutant(d, graceful, timeoutMs, cn) ==
    /\ NextDisc(d)
    /\ LET wait == process # NoProcess /\ graceful
       IN /\ status' = "disconnecting"
          /\ conn' = Emit(cn, <<"disconnecting">>)
          /\ disc' = [disc EXCEPT ![d] =
                        [@ EXCEPT !.pc = IF wait THEN "sleep" ELSE "kill",
                                  !.graceful = graceful, !.timeoutMs = timeoutMs,
                                  !.fromStopped = status = "stopped"]]
          /\ kp' = IF wait THEN kp
                   ELSE [kp EXCEPT ![DiscOwner(d)] = StartKp(graceful, timeoutMs)]
          /\ obs' = Told(obs, <<"disconnecting">>)
    /\ UNCHANGED <<process, proc, cfg, files, nLines>>

\* disconnect(graceful, timeoutMs), lines 388-407: up to the first await.
\* cn is the connect() calls' state the 'disconnecting' event is delivered to.
DisconnectBegin(d, graceful, timeoutMs, cn) ==
    /\ NextDisc(d)
    /\ LET change == status \notin {"disconnected", "stopped", "disconnecting"}
           wait == process # NoProcess /\ graceful
       IN /\ status' = IF change THEN "disconnecting" ELSE status
          /\ conn' = Emit(cn, IF change THEN <<"disconnecting">> ELSE <<>>)
          /\ disc' = [disc EXCEPT ![d] =
                        [@ EXCEPT !.pc = IF wait THEN "sleep" ELSE "kill",
                                  !.graceful = graceful, !.timeoutMs = timeoutMs,
                                  !.fromStopped = status = "stopped"]]
          /\ kp' = IF wait THEN kp
                   ELSE [kp EXCEPT ![DiscOwner(d)] = StartKp(graceful, timeoutMs)]
          /\ obs' = Told(obs, IF change THEN <<"disconnecting">> ELSE <<>>)
    /\ UNCHANGED <<process, proc, cfg, files, nLines>>

DisconnectCall(d, graceful, timeoutMs) ==
    /\ Quiet
    /\ DisconnectBegin(d, graceful, timeoutMs, conn)

\* disconnect(), lines 403-407: after the sleep, killProcesses(graceful, timeoutMs).
DisconnectSleep(d) ==
    /\ Quiet
    /\ disc[d].pc = "sleep"
    /\ disc' = [disc EXCEPT ![d].pc = "kill"]
    /\ kp' = [kp EXCEPT ![DiscOwner(d)] = StartKp(disc[d].graceful, disc[d].timeoutMs)]
    /\ UNCHANGED <<status, process, proc, conn, cfg, files, nLines, obs>>

\* disconnect(), lines 408-423, after killProcesses: an exception of
\* killProcesses rejects disconnect() here.
DisconnectFinish(d, failCfg, failAuth, failRm) ==
    /\ disc[d].pc = "kill"
    /\ kp[DiscOwner(d)].pc \in {"done", "raised"}
    /\ kp' = [kp EXCEPT ![DiscOwner(d)] = IdleKp]
    /\ IF kp[DiscOwner(d)].pc = "raised"
       THEN /\ disc' = [disc EXCEPT ![d].pc = "rejected"]
            /\ UNCHANGED <<status, process, conn, files, obs>>
       ELSE LET change == status \notin {"disconnected", "stopped", "disconnecting"}
                evs == IF change THEN <<"disconnected">> ELSE <<>>
            IN /\ process' = NoProcess
               /\ status' = IF change THEN "disconnected" ELSE status
               /\ conn' = Emit(conn, evs)
               /\ files' = cleanupTempConfig(files, failCfg, failAuth, failRm)
               /\ obs' = Logged(Told(obs, evs),
                                cleanupLogs(files, failCfg, failAuth, failRm))
               /\ disc' = [disc EXCEPT ![d].pc = "settle", ![d].released = TRUE,
                                       ![d].cleaned = TRUE]
    /\ UNCHANGED <<proc, cfg, nLines>>

\* disconnect(), lines 421-423: the promise resolves 250 ms later.
DisconnectReturn(d) ==
    /\ Quiet
    /\ disc[d].pc = "settle"
    /\ disc' = [disc EXCEPT ![d].pc = "returned"]
    /\ UNCHANGED <<status, process, proc, conn, kp, cfg, files, nLines, obs>>

\* The 30 s timer of connect(), lines 373-384.
TimerFire(c) ==
    /\ Quiet
    /\ conn[c].timer = "armed"
    /\ LET rejects == status \notin {"connected", "disconnected", "reconnecting",
                                     "disconnecting"}
           cn == [conn EXCEPT ![c] =
                    Summed(@, [@ EXCEPT !.lis = FALSE, !.timer = "fired",
                                        !.timerDisc = rejects,
                                        !.pc = IF rejects /\ @ = "pending"
                                               THEN "timeout" ELSE @])]
       IN IF rejects
          THEN \E d \in Discs : DisconnectBegin(d, TRUE, DefaultTimeoutMs, cn)
          ELSE /\ conn' = cn
               /\ UNCHANGED <<status, process, proc, disc, kp, cfg, files, nLines, obs>>

\* A cleanup() that also resets the status, without an event:
\* C19_StatusChangesWithEvent fails with it.
CleanupMutant(failCfg, failAuth, failRm) ==
    /\ Quiet
    /\ files' = cleanupTempConfig(files, failCfg, failAuth, failRm)
    /\ obs' = Logged(obs, cleanupLogs(files, failCfg, failAuth, failRm))
    /\ status' = "stopped"
    /\ UNCHANGED <<process, proc, conn, disc, kp, cfg, nLines>>

\* cleanup(), lines 430-432.
Cleanup(failCfg, failAuth, failRm) ==
    /\ Quiet
    /\ files' = cleanupTempConfig(files, failCfg, failAuth, failRm)
    /\ obs' = Logged(obs, cleanupLogs(files, failCfg, failAuth, failRm))
    /\ UNCHANGED <<status, process, proc, conn, disc, kp, cfg, nLines>>

\* A caller's killProcesses(graceful, timeoutMs), line 467.
KillCall(graceful, timeoutMs) ==
    /\ Quiet
    /\ kp[UserOwner].pc = "idle"
    /\ kp' = [kp EXCEPT ![UserOwner] = StartKp(graceful, timeoutMs)]
    /\ UNCHANGED <<status, process, proc, conn, disc, cfg, files, nLines, obs>>

\* return (lines 470-472, 487-489, and the end of the function after an empty
\* list at 498 or 505): getProcesses() resolved with an empty list.  The list
\* is what psList() saw when it ran; killProcesses() returns when the promise
\* resolves, and other events of the session are handled in between.
KpReturn(o) ==
    /\ Quiet
    /\ kp[o].pc = "empty"
    /\ kp' = [kp EXCEPT ![o].pc = "done"]
    /\ UNCHANGED <<status, process, proc, conn, disc, cfg, files, nLines, obs>>

----------------------------------------------------------------------------
\* The steps of the killProcesses() run of owner o.
KpNext(o) ==
    \/ KpQuery(o)
    \/ KpReturn(o)
    \/ \E ok \in BOOLEAN : KpInterrupt(o, ok)
    \/ KpPoll(o)
    \/ KpRequery(o)
    \/ \E ok \in BOOLEAN : KpForce(o, ok)
    \/ KpRetry(o)
    \/ \E dies \in SUBSET Pids : KpBatch(o, dies)

\* The session in the 30 s after its first connect(): overlapping connect() and
\* disconnect() calls and the children's events, before any timer of connect()
\* fires (NextConnect has the timer) and with a file system that does not fail
\* (NextFiles has the failures).
Next ==
    \/ \E p \in Children : ChildExit(p)
    \/ \E p \in Children : ChildClose(p)
    \/ \E p \in Children : ChildError(p)
    \/ \E p \in Children, line \in SessionLines : ChildLine(p, line, MaxLines)
    \/ \E o \in SessionOwners : KpNext(o)
    \/ \E c \in Conns : ConnectCall(c)
    \/ \E c \in Conns : ConnectBootSleep(c)
    \/ \E c \in Conns, exec \in {"found", "throws", "missing"} : ConnectSpawn(c, exec)
    \/ \E d \in Discs, g \in BOOLEAN : DisconnectCall(d, g, DefaultTimeoutMs)
    \/ \E d \in Discs : DisconnectSleep(d)
    \/ \E d \in Discs : DisconnectFinish(d, FALSE, FALSE, FALSE)
    \/ \E d \in Discs : DisconnectReturn(d)

Spec == Init /\ [][Next]_vars

\* One connect() call on a new session, to its settling and beyond: the child
\* prints any lines, and the only disconnect() is the one the timer makes.
NextConnect ==
    \/ ChildExit(1)
    \/ ChildClose(1)
    \/ ChildError(1)
    \/ \E line \in Lines : ChildLine(1, line, MaxSoloLines)
    \/ KpNext(ConnOwner(1))
    \/ KpNext(DiscOwner(1))
    \/ ConnectCall(1)
    \/ \E exec \in {"found", "throws", "missing"} : ConnectSpawn(1, exec)
    \/ TimerFire(1)
    \/ DisconnectSleep(1)
    \/ \E f1, f2, f3 \in BOOLEAN : DisconnectFinish(1, f1, f2, f3)
    \/ DisconnectReturn(1)

SpecConnect == Init /\ [][NextConnect]_vars

\* The session's files: connect(), disconnect() and cleanup() calls on a
\* machine where the binary is found and the children print nothing.
NextFiles ==
    \/ \E p \in Children : ChildExit(p)
    \/ \E p \in Children : ChildClose(p)
    \/ \E o \in SessionOwners : KpNext(o)
    \/ \E c \in Conns : ConnectCall(c)
    \/ \E c \in Conns : ConnectBootSleep(c)
    \/ \E c \in Conns : ConnectSpawn(c, "found")
    \/ \E d \in Discs : DisconnectCall(d, TRUE, DefaultTimeoutMs)
    \/ \E d \in Discs : DisconnectSleep(d)
    \/ \E d \in Discs, f1, f2, f3 \in BOOLEAN : DisconnectFinish(d, f1, f2, f3)
    \/ \E d \in Discs : DisconnectReturn(d)
    \/ \E f1, f2, f3 \in BOOLEAN : Cleanup(f1, f2, f3)

SpecFiles == Init /\ [][NextFiles]_vars

\* A caller's killProcesses() on a machine that runs other OpenVPN processes.
NextKill ==
    \/ \E p \in ForeignPids : ChildExit(p)
    \/ \E g \in BOOLEAN, t \in TimeoutChoices : KillCall(g, t)
    \/ KpNext(UserOwner)

SpecKill == InitKill /\ [][NextKill]_vars

\* The classifier: one connect() and one disconnect() on a new session whose
\* child prints whole lines with any patterns.
LogChunks == {<<Whole(L)>> : L \in PatternLines}

NextLog ==
    \/ ChildExit(1)
    \/ ChildClose(1)
    \/ \E chunk \in LogChunks : ChildData(1, chunk, MaxChunks)
    \/ KpNext(ConnOwner(1))
    \/ KpNext(DiscOwner(1))
    \/ ConnectCall(1)
    \/ ConnectSpawn(1, "found")
    \/ DisconnectCall(1, TRUE, DefaultTimeoutMs)
    \/ DisconnectSleep(1)
    \/ DisconnectFinish(1, FALSE, FALSE, FALSE)
    \/ DisconnectReturn(1)

SpecLog == InitLog /\ [][NextLog]_vars

\* The same, with lines that contain at most one pattern.
LineChunks == {<<Whole(L)>> : L \in Lines}

NextLine ==
    \/ ChildExit(1)
    \/ ChildClose(1)
    \/ \E chunk \in LineChunks : ChildData(1, chunk, MaxChunks)
    \/ KpNext(ConnOwner(1))
    \/ KpNext(DiscOwner(1))
    \/ ConnectCall(1)
    \/ ConnectSpawn(1, "found")
    \/ DisconnectCall(1, TRUE, DefaultTimeoutMs)
    \/ DisconnectSleep(1)
    \/ DisconnectFinish(1, FALSE, FALSE, FALSE)
    \/ DisconnectReturn(1)

SpecLine == InitLog /\ [][NextLine]_vars

\* The subscribers: one connect() and one disconnect() on a session whose
\* subscribers keep every event, with a child that prints its lines in chunks
\* cut anywhere.
StreamLines == {{}, {"INIT"}, {"SIGUSR1"}}

StreamChunks ==
    {<<Whole(L)>> : L \in StreamLines} \cup {<<Blank>>}
    \cup {<<HeadPiece(x)>> : x \in Splits} \cup {<<TailPiece(HeadPiece(x))>> : x \in Splits}
    \cup {<<Whole({"INIT"}), Whole({})>>}

NextSubs ==
    \/ ChildExit(1)
    \/ ChildClose(1)
    \/ \E chunk \in StreamChunks : ChildData(1, chunk, MaxChunks)
    \/ KpNext(ConnOwner(1))
    \/ KpNext(DiscOwner(1))
    \/ ConnectCall(1)
    \/ ConnectSpawn(1, "found")
    \/ DisconnectCall(1, TRUE, DefaultTimeoutMs)
    \/ DisconnectSleep(1)
    \/ DisconnectFinish(1, FALSE, FALSE, FALSE)
    \/ DisconnectReturn(1)

SpecSubs == InitSubs /\ [][NextSubs]_vars

\* What changes the status: one connect() and one disconnect(), cleanup() and
\* killProcesses() calls at any time, on a session whose subscriber keeps the
\* status events, with a child that fails to start or prints whole lines, a
\* connect() timer that fires, and a file system that can fail.
FrameChunks == {<<Whole(L)>> : L \in {{}, {"INIT"}}}

NextFrame ==
    \/ ChildExit(1)
    \/ ChildClose(1)
    \/ ChildError(1)
    \/ \E chunk \in FrameChunks : ChildData(1, chunk, MaxLines)
    \/ \E o \in Owners : KpNext(o)
    \/ ConnectCall(1)
    \/ \E exec \in {"found", "missing"} : ConnectSpawn(1, exec)
    \/ DisconnectCall(1, TRUE, DefaultTimeoutMs)
    \/ DisconnectSleep(1)
    \/ DisconnectFinish(1, FALSE, FALSE, FALSE)
    \/ DisconnectReturn(1)
    \/ TimerFire(1)
    \/ \E f1, f2, f3 \in BOOLEAN : Cleanup(f1, f2, f3)
    \/ KillCall(FALSE, DefaultTimeoutMs)

SpecFrame == InitFrame /\ [][NextFrame]_vars

\* cleanup() at any time: one connect() and one disconnect(), with a child
\* that prints whole lines, and a file system that can fail.
NextCleanup ==
    \/ ChildExit(1)
    \/ ChildClose(1)
    \/ \E chunk \in FrameChunks : ChildData(1, chunk, MaxLines)
    \/ KpNext(ConnOwner(1))
    \/ KpNext(DiscOwner(1))
    \/ ConnectCall(1)
    \/ ConnectSpawn(1, "found")
    \/ DisconnectCall(1, TRUE, DefaultTimeoutMs)
    \/ DisconnectSleep(1)
    \/ \E f1, f2, f3 \in BOOLEAN : DisconnectFinish(1, f1, f2, f3)
    \/ DisconnectReturn(1)
    \/ \E f1, f2, f3 \in BOOLEAN : Cleanup(f1, f2, f3)

SpecCleanup == Init /\ [][NextCleanup]_vars

----------------------------------------------------------------------------
\* Properties.

\* C1: every disconnect() call ends with status `disconnected`, or `stopped`
\* for a session that was `stopped` when it was called: at the step in which
\* disconnect() returns, no connect() having been called since it began, the
\* status is never `disconnecting` or anything else.
C1_DisconnectEndsDisconnected ==
    [][\A d \in Discs :
         disc[d].pc = "settle" /\ disc'[d].pc = "returned" /\ ~disc[d].laterConnect
         => status' = IF disc[d].fromStopped THEN "stopped" ELSE "disconnected"]_vars

\* C2: once the 30 s timer of a connect() call has fired the call is settled
\* (resolved, rejected by an event, or rejected with the timeout error), and a
\* timeout rejection comes with a disconnect() call.
C2_DeadlineSettles ==
    \A c \in Conns :
        conn[c].timer = "fired"
        => /\ conn[c].pc \in {"resolved", "failed", "timeout"}
           /\ conn[c].pc = "timeout" => conn[c].timerDisc

\* C3: between the spawn and the deadline, connect() is resolved exactly when
\* the first of the events connected / error / auth_failed was `connected`,
\* rejected exactly when it was `error` or `auth_failed`, and pending (or timed
\* out) as long as there was none, whatever other events were emitted.
C3_FirstSettlingEvent ==
    \A c \in Conns :
        conn[c].timer # "unset"
        => /\ conn[c].first = "connected" <=> conn[c].pc = "resolved"
           /\ conn[c].first \in {"error", "auth_failed"} <=> conn[c].pc = "failed"
           /\ conn[c].first = "none" <=> conn[c].pc \in {"pending", "timeout"}

\* C3 witness: the call was rejected by `auth_failed`, and a `connected` that
\* came after it (the status now) did not resolve it.
C3_Witness ==
    /\ conn[1].pc = "failed"
    /\ conn[1].first = "auth_failed"
    /\ status = "connected"

\* C4: a connect() call that resolved saw exactly one `connecting`, then exactly
\* one `connected`, and no `error` or `auth_failed`, between call and resolution.
C4_ResolvedSawOneOfEach ==
    \A c \in Conns : conn[c].pc = "resolved" => conn[c].clean

\* C5: disconnect() never rejects, and when it is past its teardown it has
\* released the child handle and run the artifact cleanup.
C5_DisconnectCompletes ==
    \A d \in Discs :
        /\ disc[d].pc # "rejected"
        /\ disc[d].pc \in {"settle", "returned"}
           => disc[d].released /\ disc[d].cleaned

\* C6: killProcesses() never raises, and when it has returned every process
\* still matching has had a forceful kill attempted on it.
C6_KillNeverRaises ==
    /\ kp[UserOwner].pc # "raised"
    /\ kp[UserOwner].pc = "done" => getProcesses \subseteq kp[UserOwner].forced

C8_CallerConfigKept == ~cfg.isTempConfig => files.cfgFile

\* C9: once a disconnect() has returned, and until connect() is called again,
\* no OpenVPN process is running (provided no forceful kill failed).
C9_NoProcessAfterDisconnect ==
    \A d \in Discs :
        disc[d].pc = "returned" /\ ~disc[d].laterConnect /\ ~obs.killFailed
        => getProcesses = {}

\* C10: when the status becomes `disconnected` (the event is delivered in the
\* same step) no OpenVPN process is running.
C10_DisconnectedMeansNoProcess ==
    [][status' = "disconnected" /\ status # "disconnected"
       => {p \in Pids : proc'[p] = "running"} = {}]_vars

\* C11: when the binary cannot be found or launched, connect() rejects and the
\* status is `error`: a connect() that ended by an exception of its launch
\* (getExecPath() throwing before any spawn) leaves the status `error`.
C11_LaunchFailureIsError ==
    \A c \in Conns : conn[c].pc = "threw" => status = "error"

\* The credential prompts and their answers.
Prompts ==
    {[pat |-> "USER", type |-> "username", to |-> "auth_username"],
     [pat |-> "PASS", type |-> "password", to |-> "auth_password"]}

\* C12: a line with a credential prompt emits the prompt status; with the
\* credential configured, exactly the credential and a line terminator are
\* written to the child's input and the status stays the prompt status; without
\* it, nothing is written and the status becomes `auth_failed`.
C12_PromptAnswered ==
    \A q \in Prompts :
        q.pat \in obs.last.line.pats /\ {"USER", "PASS"} \ obs.last.line.pats # {}
        => /\ \E i \in 1 .. Len(obs.last.evs) : obs.last.evs[i] = q.to
           /\ IF cfg[q.type]
              THEN /\ obs.last.writes = <<[to |-> 1, text |-> <<q.type, "\n">>]>>
                   /\ obs.last.after = q.to
              ELSE /\ obs.last.writes = <<>>
                   /\ obs.last.after = "auth_failed"

\* C15: a line whose only pattern is `Successful ARP Flush on interface` makes
\* the status `connected`, with one event, when the status was `reconnecting`;
\* from every other status it changes nothing and emits no status event.
C15_ArpOnlyFromReconnecting ==
    obs.last.line.pats = {"ARP"}
    => IF obs.last.before = "reconnecting"
       THEN obs.last.after = "connected" /\ obs.last.evs = <<"connected">>
       ELSE obs.last.after = obs.last.before /\ obs.last.evs = <<>>

\* C15 witness: the ARP line came while the status was `reconnecting`.
C15_Witness ==
    /\ obs.last.line.pats = {"ARP"}
    /\ obs.last.before = "reconnecting"
    /\ obs.last.after = "connected"

C14_OtherSessionsChildrenLive ==
    [][\A p \in ForeignPids : proc'[p] # proc[p] => UNCHANGED kp]_vars

\* C13: a status subscriber attached before connect() receives every status
\* transition in the order in which the transitions were applied to the
\* status, also when another subscriber calls disconnect() inside its callback.
C13_HeardInAppliedOrder == obs.heard = obs.applied

\* C18: every line of the child's output that is not blank is delivered to the
\* log subscribers exactly once, in arrival order: once the pipe has delivered
\* every line in full, the 'log' events of the child's output are its lines.
ChildLogs ==
    LET own == SelectSeq(obs.logs, LAMBDA e : e.src = "child")
    IN [i \in 1 .. Len(own) |-> own[i].piece]

C18_EachLineLoggedOnce ==
    obs.cut = Blank =>
        ChildLogs = [i \in 1 .. Len(obs.out) |-> Whole(obs.out[i])]

\* C19: the status changes only in a step of connect(), of disconnect(), of
\* the connect() timer, of the child's 'close' or 'error' event or of a line of
\* its output, and no other step (getProcesses(), killProcesses(), cleanup())
\* emits a status event; every change of the status comes with status events,
\* the last of which carries the new value.
C19_StatusChangesWithEvent ==
    [][LET new == SubSeq(obs'.heard, Len(obs.heard) + 1, Len(obs'.heard))
           lifecycle ==
               \/ nLines' # nLines
               \/ conn' # conn
               \/ disc' # disc
               \/ \E p \in Children :
                     proc[p] \in {"exited", "spawnerr"} /\ proc'[p] # proc[p]
       IN /\ status' # status => new # <<>> /\ new[Len(new)] = status'
          /\ (status' # status \/ new # <<>>) => lifecycle]_vars

\* cleanup() and killProcesses() have run on a connected session, which is
\* still connected and has emitted nothing since.
C19_Witness ==
    /\ status = "connected"
    /\ obs.heard = <<"connecting", "connected">>
    /\ disc[1].pc = "idle"
    /\ ~files.cfgFile
    /\ kp[UserOwner].pc = "done"

\* C20: cleanup() is idempotent: in any session state, a second cleanup() that
\* meets the same outcomes of the file system calls as the first leaves the
\* artifacts as the first left them, and a cleanup() leaves the status, the
\* held child and the calls in progress as they were.
C20_CleanupIdempotent ==
    [][\A f1, f2, f3 \in BOOLEAN :
          Cleanup(f1, f2, f3) =>
              /\ cleanupTempConfig(files', f1, f2, f3) = files'
              /\ UNCHANGED <<status, process, conn, disc>>]_vars

\* cleanup() has removed the config file and the auth file that connect()
\* wrote, on a session that never called disconnect().
C20_Witness ==
    /\ disc[1].pc = "idle"
    /\ conn[1].pc = "pending"
    /\ ~files.cfgFile
    /\ files.authPath
    /\ ~files.authFile

C22_OneTransitionPerLine ==
    obs.last.line.pats \cap {"USER", "PASS"} = {} => Len(obs.last.evs) <= 1

\* C23: a line is classified and logged only once it is complete: no fragment
\* of a line that was split across two chunks is passed to the classifier or
\* to the log subscribers on its own.
C23_NoFragmentHandled ==
    \A i \in 1 .. Len(ChildLogs) : ChildLogs[i].part = "whole"

\* C24: when the child exits after a terminal status was reached, the status
\* is preserved: the 'close' event of a child leaves the status `auth_failed`
\* as it is.
C24_CloseKeepsTerminalStatus ==
    [][\A p \in Children :
          proc[p] = "exited" /\ proc'[p] = "closed" /\ status = "auth_failed"
          => status' = status]_vars

\* C25: connect() emits `connecting` when the teardown of the child it held is
\* complete: in the step of a connect() call that emits `connecting`, the
\* session holds no child any more.
C25_TeardownBeforeConnecting ==
    [][\A c \in Conns :
          conn[c].pc = "idle" /\ conn'[c].pc # "idle"
          => status' = "connecting" /\ process' = NoProcess]_vars

\* C26: at every moment at most one child that the session spawned is alive,
\* for every interleaving of connect() and disconnect() calls.
C26_OneLiveChild ==
    Cardinality({p \in Children : proc[p] = "running"}) <= 1

\* C27: with graceful = true an interrupt is attempted for every process of
\* the initial query, also when an earlier one fails, and the polling wait
\* follows: the run leaves the interrupt loop at the last process of the list,
\* and for the polling loop.
C27_EveryProcessInterrupted ==
    [][\A o \in Owners :
          kp[o].pc = "interrupt" /\ kp'[o].pc # "interrupt"
          => Cardinality(kp[o].todo) = 1 /\ kp'[o].pc = "poll"]_vars

C29_StaleTimerHarmless ==
    [][\A c \in Conns :
          conn[c].timer = "armed" /\ conn'[c].timer = "fired" /\ conn[c].pc = "resolved"
          => UNCHANGED <<status, disc>>]_vars

\* C30: once a later connect() has emitted `connecting`, the 'close' event of
\* the child of an earlier connect() does not change the status.
C30_SupersededChildSilent ==
    [][\A p \in Children :
          /\ \E c \in Conns : c > p /\ conn[c].pc # "idle"
          /\ proc[p] = "exited" /\ proc'[p] = "closed"
          => status' = status]_vars

\* C31: disconnect() does not discard the handle of a child that an
\* overlapping connect() spawned while it was waiting: the step in which a
\* disconnect() releases the handle leaves the handle of a running child.
C31_NewChildStaysHeld ==
    [][\A d \in Discs :
          /\ disc[d].pc = "kill" /\ disc'[d].pc = "settle"
          /\ process # NoProcess /\ proc[process] = "running"
          => process' = process]_vars

=============================================================================
